---- MODULE Spec2Model ----
(***************************************************************************)
(* A model of src/main.js: the Sudoku generator (generateValidSudoku with  *)
(* its closures isValid and solve), the puzzle derivation (generatePuzzle) *)
(* and the session handlers that read and write gameState.                 *)
(*                                                                         *)
(* The board geometry is a parameter: a box is BoxSize x BoxSize and the   *)
(* board N x N with N = BoxSize * BoxSize.  The source fixes BoxSize = 3   *)
(* (a 9 x 9 board, 81 cells); the model is explored with the smaller box   *)
(* below, and every literal 3, 9 and 81 of the source is written in terms  *)
(* of BoxSize, N and CellCount.                                            *)
(***************************************************************************)
EXTENDS Integers, Sequences, FiniteSets, TLC

\* ------------------------------------------------------------------ bounds
\* Side of a box; the source's boards have BoxSize = 3.
BoxSize == 2
\* Number of seeds of the random stream that drives a session's generation.
NumSeeds == 2
\* Number of puzzle generations a session is followed through.
MaxGames == 2
\* Number of input events a session is followed through.
MaxOps == 5
\* Number of wrong entries of the player who fills a puzzle cell by cell.
MaxFillMistakes == 1
\* Number of wrong entries of the player who only errs.
MaxMistakes == 5

\* ------------------------------------------------------- program constants
\* The 81 of "81 - clueCount": the number of cells of the source's board.
SourceCells == 81
\* gameState.maxHints
maxHints == 3
\* "if (gameState.mistakes > 3)": the mistakes a game tolerates.
MistakeLimit == 3

N == BoxSize * BoxSize
CellCount == N * N
Idx == 0 .. N - 1
Digits == 1 .. N
Cells == Idx \X Idx
\* null, as in the gameState literal
Null == "null"

\* Array(9).fill(null).map(() => Array(9).fill(0))
EmptyBoard == [r \in Idx |-> [c \in Idx |-> 0]]

CopyBoardTransposed(b) == [r \in Idx |-> [c \in Idx |-> b[c][r]]]

\* gameState.solution.map(row => [...row]): a copy that shares nothing.
CopyBoard(b) == [r \in Idx |-> [c \in Idx |-> b[r][c]]]

NonZeroCount(b) == Cardinality({p \in Cells : b[p[1]][p[2]] # 0})

\* ------------------------------------------------------------ Math.random
\* A session's generator draws from a seeded stream: the stream's state is a
\* number below 65536, Math.random() advances it and returns state / 65536.
NextRng(s) == (25173 * s + 13849) % 65536

RECURSIVE NextRngN(_, _)
NextRngN(s, n) == IF n = 0 THEN s ELSE NextRngN(NextRng(s), n - 1)

\* Math.floor(Math.random() * k), for the stream state s just drawn
RandInt(s, k) == (s * k) \div 65536

\* ---------------------------------------------------------------- isValid
isValidBoxColFromRow(b, row, col, num) ==
    /\ \A i \in Idx : b[row][i] # num
    /\ \A i \in Idx : b[i][col] # num
    /\ LET boxRow == (row \div BoxSize) * BoxSize
           boxCol == (row \div BoxSize) * BoxSize
       IN  \A i \in boxRow .. boxRow + BoxSize - 1 :
             \A j \in boxCol .. boxCol + BoxSize - 1 : b[i][j] # num

isValidNoBox(b, row, col, num) ==
    /\ \A i \in Idx : b[row][i] # num
    /\ \A i \in Idx : b[i][col] # num

isValid(b, row, col, num) ==
    /\ \A i \in Idx : b[row][i] # num
    /\ \A i \in Idx : b[i][col] # num
    /\ LET boxRow == (row \div BoxSize) * BoxSize
           boxCol == (col \div BoxSize) * BoxSize
       IN  \A i \in boxRow .. boxRow + BoxSize - 1 :
             \A j \in boxCol .. boxCol + BoxSize - 1 : b[i][j] # num

\* ------------------------------------------------------------------ solve
\* The nested row/col loops of solve stop at the first cell holding 0, in
\* row-major order; k = row * N + col.
EmptyIndexes(b) == {k \in 0 .. CellCount - 1 : b[k \div N][k % N] = 0}

FirstEmpty(b) ==
    CHOOSE k \in EmptyIndexes(b) : \A m \in EmptyIndexes(b) : k <= m

\* const nums = [1, 2, ..., 9]
InitialNums == [k \in Idx |-> k + 1]

\* The Fisher-Yates loop: for i = N-1 down to 1, swap nums[i] and nums[j]
\* with j = js[i] the draw Math.floor(Math.random() * (i + 1)).
RECURSIVE ShuffleFrom(_, _, _)
ShuffleFrom(nums, i, js) ==
    IF i <= 0 THEN nums
    ELSE ShuffleFrom([nums EXCEPT ![i] = nums[js[i]], ![js[i]] = nums[i]],
                     i - 1, js)

Shuffle(js) == ShuffleFrom(InitialNums, N - 1, js)

\* Every sequence of draws: js[i] is any of 0 .. i.
AllDraws == {js \in [1 .. N - 1 -> Idx] : \A i \in 1 .. N - 1 : js[i] <= i}

\* Every order the shuffle can leave nums in.
Shuffles == {Shuffle(js) : js \in AllDraws}

\* The draws of one shuffle taken from the stream in state s: the draw for
\* i is the (N - i)-th value after s.
StreamDraws(s) == [i \in 1 .. N - 1 |-> RandInt(NextRngN(s, N - i), i + 1)]

\* -------------------------------------------------------------- variables
\* gameState (the fields the handlers read and write)
VARIABLES currentDifficulty, board, solution, originalBoard, selectedCell,
          mistakes, score, timerStarted, errorCells, notesMode, cellNotes,
          hintsUsed
\* the random stream, the pending game-over timeouts, the completion modal,
\* and the number of input events handled so far
VARIABLES rng, pendingGameOver, completionShown, ops
\* history: the board as the last run of generatePuzzle's removal loop left it
VARIABLES derived
\* a run of generateValidSudoku: its local board, the stack of solve() calls
\* in progress, the point of control and the value the last call returned
VARIABLES genBoard, stack, gpc, ret
\* a run of generatePuzzle's removal loop: its locals and point of control
VARIABLES clueCount, removed, ppc

sessVars == <<currentDifficulty, board, solution, originalBoard, selectedCell,
              mistakes, score, timerStarted, errorCells, notesMode, cellNotes,
              hintsUsed, rng, pendingGameOver, completionShown, ops,
              derived>>
genVars == <<genBoard, stack, gpc, ret>>
pzVars == <<clueCount, removed, ppc>>
vars == <<sessVars, genVars, pzVars>>

\* gameState.board, .solution and .originalBoard before the first generation
NullBoard == <<>>
\* gameState.selectedCell = null
NoCell == <<>>

\* The gameState literal, but for its three boards.
FreshFields ==
    /\ currentDifficulty = Null
    /\ selectedCell = NoCell
    /\ mistakes = 0
    /\ score = 0
    /\ timerStarted = FALSE
    /\ errorCells = {}
    /\ notesMode = FALSE
    /\ cellNotes = [p \in {} |-> {}]
    /\ hintsUsed = 0
    /\ pendingGameOver = 0
    /\ completionShown = FALSE
    /\ ops = 0

\* The gameState literal.
InitSession ==
    /\ FreshFields
    /\ board = NullBoard
    /\ solution = NullBoard
    /\ originalBoard = NullBoard
    /\ derived = NullBoard

\* No run of generateValidSudoku in progress.
IdleGen ==
    /\ genBoard = EmptyBoard
    /\ stack = <<>>
    /\ gpc = "idle"
    /\ ret = "none"

\* No run of the removal loop in progress.
IdlePuzzle ==
    /\ clueCount = 0
    /\ removed = 0
    /\ ppc = "idle"

\* ------------------------------------------- generateValidSudoku, stepwise
\* One step per stage of a solve() call.  A frame is a call that stopped at
\* the empty cell (row, col); rest holds the numbers of its shuffled nums
\* that the for-of loop has not reached yet, and entry (history) the board as
\* it was when the call was entered.  The order of nums is revealed
\* as the loop goes: the next number tried is the first of rest in some order
\* the shuffle can produce.  Numbers that isValid rejects are passed over in
\* the same step, and leave rest with it.
Top == stack[Len(stack)]

\* solve() is entered: it scans for the first empty cell, and returns true
\* when there is none.
SolveCall ==
    /\ gpc = "call"
    /\ IF EmptyIndexes(genBoard) = {}
       THEN /\ ret' = "true"
            /\ gpc' = "return"
            /\ stack' = stack
       ELSE LET k == FirstEmpty(genBoard)
            IN  /\ stack' = Append(stack, [row |-> k \div N, col |-> k % N,
                                           rest |-> Digits,
                                           entry |-> genBoard])
                /\ gpc' = "loop"
                /\ ret' = ret
    /\ genBoard' = genBoard
    /\ UNCHANGED <<sessVars, pzVars>>

\* The numbers of rest that isValid accepts on the board as it is now.
Accepted(f) == {n \in f.rest : isValid(genBoard, f.row, f.col, n)}

\* The first number of `order` that belongs to S.
FirstOf(order, S) ==
    order[CHOOSE k \in Idx : order[k] \in S /\ \A m \in 0 .. k - 1 : order[m] \notin S]

\* The for-of loop goes on: the next accepted number is placed and solve()
\* called again; with none left the call returns false.
SolveLoop ==
    /\ gpc = "loop"
    /\ IF Accepted(Top) = {}
       THEN /\ stack' = SubSeq(stack, 1, Len(stack) - 1)
            /\ ret' = "false"
            /\ gpc' = "return"
            /\ genBoard' = genBoard
       ELSE \E order \in Shuffles :
              LET num == FirstOf(order, Accepted(Top))
              IN  /\ genBoard' = [genBoard EXCEPT ![Top.row][Top.col] = num]
                  /\ stack' = [stack EXCEPT ![Len(stack)].rest = Accepted(Top) \ {num}]
                  /\ gpc' = "call"
                  /\ ret' = ret
    /\ UNCHANGED <<sessVars, pzVars>>

SolveReturnNoUndo ==
    /\ gpc = "return"
    /\ IF stack = <<>>
       THEN /\ gpc' = "done"
            /\ UNCHANGED <<genBoard, stack, ret>>
       ELSE IF ret = "true"
            THEN /\ stack' = SubSeq(stack, 1, Len(stack) - 1)
                 /\ gpc' = "return"
                 /\ UNCHANGED <<genBoard, ret>>
            ELSE /\ gpc' = "loop"
                 /\ UNCHANGED <<genBoard, stack, ret>>
    /\ UNCHANGED <<sessVars, pzVars>>

\* A call has returned `ret` to its caller: "if (solve()) return true;
\* board[row][col] = 0;", or to generateValidSudoku when it was the first.
SolveReturn ==
    /\ gpc = "return"
    /\ IF stack = <<>>
       THEN /\ gpc' = "done"
            /\ UNCHANGED <<genBoard, stack, ret>>
       ELSE IF ret = "true"
            THEN /\ stack' = SubSeq(stack, 1, Len(stack) - 1)
                 /\ gpc' = "return"
                 /\ UNCHANGED <<genBoard, ret>>
            ELSE /\ genBoard' = [genBoard EXCEPT ![Top.row][Top.col] = 0]
                 /\ gpc' = "loop"
                 /\ UNCHANGED <<stack, ret>>
    /\ UNCHANGED <<sessVars, pzVars>>

\* generateValidSudoku is entered: a board of zeros, and the call solve().
InitGen ==
    /\ InitSession
    /\ rng = 0
    /\ IdlePuzzle
    /\ genBoard = EmptyBoard
    /\ stack = <<>>
    /\ gpc = "call"
    /\ ret = "none"

NextGen == SolveCall \/ SolveLoop \/ SolveReturn

SpecGen == InitGen /\ [][NextGen]_vars

\* solve() is a synchronous call: it runs on until it returns.
FairSpecGen == SpecGen /\ WF_vars(NextGen)

\* solve() reused on a partially filled grid: the first two cells of the
\* first row are empty or filled, and the last two of the second row, in
\* the box beside them, are both empty or both filled.  Among these grids
\* are some whose givens clash and some whose givens agree but leave a cell
\* of the first row no number.
PartialGrids ==
    {[EmptyBoard EXCEPT ![0][0] = a, ![0][1] = b,
                        ![1][N - 2] = c,
                        ![1][N - 1] = IF c = 0 THEN 0 ELSE N] :
       a \in {0, 1}, b \in {0, 1, 2}, c \in {0, N - 1}}

\* The call solve() on one of these grids.
InitSolve ==
    /\ InitSession
    /\ rng = 0
    /\ IdlePuzzle
    /\ genBoard \in PartialGrids
    /\ stack = <<>>
    /\ gpc = "call"
    /\ ret = "none"

SpecSolve == InitSolve /\ [][NextGen]_vars

\* ------------------------------------------ generateValidSudoku, as a whole
\* The same solve(), run to its return with the draws of the stream: the
\* value is what the call returned (ok), the board as it left it, and the
\* stream's state.
RECURSIVE SolveRec(_, _), TryNums(_, _, _, _, _, _)
SolveRec(b, s) ==
    IF EmptyIndexes(b) = {} THEN [ok |-> TRUE, board |-> b, rng |-> s]
    ELSE LET k == FirstEmpty(b)
         IN  TryNums(b, k \div N, k % N, Shuffle(StreamDraws(s)), 0,
                     NextRngN(s, N - 1))

\* The for-of loop of the call at (row, col), from nums[k] on.
TryNums(b, row, col, nums, k, s) ==
    IF k >= N THEN [ok |-> FALSE, board |-> b, rng |-> s]
    ELSE IF isValid(b, row, col, nums[k])
         THEN LET r == SolveRec([b EXCEPT ![row][col] = nums[k]], s)
              IN  IF r.ok THEN r
                  ELSE TryNums([r.board EXCEPT ![row][col] = 0], row, col,
                               nums, k + 1, r.rng)
         ELSE TryNums(b, row, col, nums, k + 1, s)

\* "solve(); return board;": the value solve() returns is not looked at.
generateValidSudoku(s) == SolveRec(EmptyBoard, s)

\* ---------------------------------------------------------- generatePuzzle
DifficultyNames == {"easy", "medium", "hard", "expert", "master", "extreme"}

\* const difficulties
difficulties ==
    [easy |-> 40, medium |-> 30, hard |-> 20, expert |-> 15, master |-> 12,
     extreme |-> 8]

\* difficulties[difficulty], in proportion to the board: the table's own
\* value on the source's board of SourceCells cells.
ClueCount(d) == (difficulties[d] * CellCount) \div SourceCells

\* The body of the removal loop for the drawn (row, col).
RemoveStepUnchecked(b, n, row, col) ==
    [board |-> [b EXCEPT ![row][col] = 0], removed |-> n + 1]

RemoveStep(b, n, row, col) ==
    IF b[row][col] # 0
    THEN [board |-> [b EXCEPT ![row][col] = 0], removed |-> n + 1]
    ELSE [board |-> b, removed |-> n]

\* "while (removed < 81 - clueCount)"
LoopGoesOn(n, clues) == n < CellCount - clues

\* The removal loop run to its end with the draws of the stream.
RECURSIVE RemoveLoop(_, _, _, _)
RemoveLoop(b, n, clues, s) ==
    IF LoopGoesOn(n, clues)
    THEN LET s1 == NextRng(s)
             s2 == NextRng(s1)
             st == RemoveStep(b, n, RandInt(s1, N), RandInt(s2, N))
         IN  RemoveLoop(st.board, st.removed, clues, s2)
    ELSE [board |-> b, rng |-> s]

generatePuzzleFixedCount(s, d) ==
    LET g == generateValidSudoku(s)
        p == RemoveLoop(CopyBoard(g.board), 0, ClueCount("easy"), g.rng)
    IN  [solution |-> g.board, board |-> p.board,
         originalBoard |-> CopyBoard(p.board), rng |-> p.rng]

\* generatePuzzle(difficulty) with the stream in state s: the three boards it
\* assigns, and the stream's state when it returns.
generatePuzzle(s, d) ==
    LET g == generateValidSudoku(s)
        p == RemoveLoop(CopyBoard(g.board), 0, ClueCount(d), g.rng)
    IN  [solution |-> g.board, board |-> p.board,
         originalBoard |-> CopyBoard(p.board), rng |-> p.rng]

\* The states the stream can be in when the g-th generation of a session
\* starts (g = 0 for the first).
RECURSIVE SeedsAfter(_)
SeedsAfter(g) ==
    IF g = 0 THEN 0 .. NumSeeds - 1
    ELSE {generatePuzzle(s, d).rng : s \in SeedsAfter(g - 1), d \in DifficultyNames}

GenSeeds == UNION {SeedsAfter(g) : g \in 0 .. MaxGames - 1}

\* generatePuzzle tabulated over the stream states a session reaches:
\* Generated(s, d) is generatePuzzle(s, d).
GeneratedTable ==
    {<<s, d, generatePuzzle(s, d)>> : s \in GenSeeds, d \in DifficultyNames}

Generated(s, d) == (CHOOSE e \in GeneratedTable : e[1] = s /\ e[2] = d)[3]

\* ------------------------------------------ the removal loop, stepwise
\* generatePuzzle at "let removed = 0": the solution is generated and copied
\* into the board; clueCount is any number, also one below 0 or above the
\* number of cells.
InitPuzzle ==
    /\ FreshFields
    /\ rng = 0
    /\ IdleGen
    /\ solution = generateValidSudoku(0).board
    /\ board = CopyBoard(solution)
    /\ originalBoard = NullBoard
    /\ derived = NullBoard
    /\ clueCount \in -1 .. CellCount + 1
    /\ removed = 0
    /\ ppc = "loop"

\* One turn of the loop, for any draw of row and col.
RemoveIteration ==
    /\ ppc = "loop"
    /\ LoopGoesOn(removed, clueCount)
    /\ \E row \in Idx, col \in Idx :
         LET st == RemoveStep(board, removed, row, col)
         IN  /\ board' = st.board
             /\ removed' = st.removed
    /\ UNCHANGED <<currentDifficulty, solution, originalBoard, selectedCell,
                   mistakes, score, timerStarted, errorCells, notesMode,
                   cellNotes, hintsUsed, rng, pendingGameOver,
                   completionShown, ops, derived, clueCount, ppc, genVars>>

\* The loop is left, and the snapshot taken.
RemoveExit ==
    /\ ppc = "loop"
    /\ ~LoopGoesOn(removed, clueCount)
    /\ originalBoard' = CopyBoard(board)
    /\ derived' = board
    /\ ppc' = "done"
    /\ UNCHANGED <<currentDifficulty, board, solution, selectedCell,
                   mistakes, score, timerStarted, errorCells, notesMode,
                   cellNotes, hintsUsed, rng, pendingGameOver,
                   completionShown, ops, clueCount, removed, genVars>>

NextPuzzle == RemoveIteration \/ RemoveExit

SpecPuzzle == InitPuzzle /\ [][NextPuzzle]_vars

\* ------------------------------------------------------ the session's handlers
gameFields == <<currentDifficulty, board, solution, originalBoard,
                selectedCell, mistakes, score, timerStarted, errorCells,
                notesMode, cellNotes, hintsUsed>>

\* What no handler of the session touches.
machines == <<genVars, pzVars>>

\* new Map()
NoNotes == [p \in {} |-> {}]

\* startNewGame(difficulty): the resets, then generatePuzzle(difficulty).
\* Pending game-over timeouts and the completion modal are left as they are.
startNewGame(d) ==
    /\ rng \in GenSeeds
    /\ mistakes' = 0
    /\ score' = 0
    /\ timerStarted' = FALSE
    /\ selectedCell' = NoCell
    /\ errorCells' = {}
    /\ notesMode' = FALSE
    /\ cellNotes' = NoNotes
    /\ hintsUsed' = 0
    /\ LET g == Generated(rng, d)
       IN  /\ solution' = g.solution
           /\ board' = g.board
           /\ originalBoard' = g.originalBoard
           /\ derived' = g.board
           /\ rng' = g.rng

\* setDifficulty(difficulty)
setDifficulty(d) ==
    /\ currentDifficulty' = d
    /\ startNewGame(d)
    /\ UNCHANGED <<pendingGameOver, completionShown>>

\* "solution[row][col] === board[row][col] && board[row][col] !== 0"
isGivenCell(row, col) ==
    solution[row][col] = board[row][col] /\ board[row][col] # 0

selectCellAlways(row, col) ==
    /\ selectedCell' = <<row, col>>
    /\ UNCHANGED <<currentDifficulty, board, solution, originalBoard,
                   mistakes, score, timerStarted, errorCells, notesMode,
                   cellNotes, hintsUsed, rng, pendingGameOver,
                   completionShown, derived>>

\* selectCell(row, col): a cell that is not given becomes the selected cell.
selectCell(row, col) ==
    /\ selectedCell' = IF isGivenCell(row, col) THEN selectedCell
                       ELSE <<row, col>>
    /\ UNCHANGED <<currentDifficulty, board, solution, originalBoard,
                   mistakes, score, timerStarted, errorCells, notesMode,
                   cellNotes, hintsUsed, rng, pendingGameOver,
                   completionShown, derived>>

isPuzzleCompleteIgnoringEmpty(b, sol) ==
    ~ \E row \in Idx, col \in Idx :
        b[row][col] # 0 /\ b[row][col] # sol[row][col]

\* isPuzzleComplete(): false at the first cell that differs from the solution.
isPuzzleComplete(b, sol) ==
    ~ \E row \in Idx, col \in Idx : b[row][col] # sol[row][col]

\* "cellNotes.get(cellKey) || []"; a cell's notes are kept sorted and without
\* repeats, and are modelled by their set.
NotesOf(cell) == IF cell \in DOMAIN cellNotes THEN cellNotes[cell] ELSE {}

\* cellNotes.set(cellKey, notes), or cellNotes.delete(cellKey) for no notes
WithNotes(cell, notes) ==
    [p \in (DOMAIN cellNotes \ {cell}) \cup (IF notes = {} THEN {} ELSE {cell})
       |-> IF p = cell THEN notes ELSE cellNotes[p]]

\* enterNumber(cell, number) in note mode: the note is added or removed.
enterNote(cell, number) ==
    /\ cellNotes' = WithNotes(cell, IF number \in NotesOf(cell)
                                    THEN NotesOf(cell) \ {number}
                                    ELSE NotesOf(cell) \cup {number})
    /\ UNCHANGED <<currentDifficulty, board, solution, originalBoard,
                   selectedCell, mistakes, score, timerStarted, errorCells,
                   notesMode, hintsUsed, rng, pendingGameOver,
                   completionShown, derived>>

errorCellsAfterUntracked(cell, wrong) == errorCells \ {cell}

\* errorCells.add(cellKey) for a wrong number, errorCells.delete(cellKey)
\* for the right one
errorCellsAfter(cell, wrong) ==
    IF wrong THEN errorCells \cup {cell} ELSE errorCells \ {cell}

enterValueAgainstSnapshot(cell, number) ==
    LET row == cell[1]
        col == cell[2]
        b == [board EXCEPT ![row][col] = number]
        wrong == number # originalBoard[row][col]
        over == wrong /\ mistakes + 1 > MistakeLimit
    IN  /\ timerStarted' = TRUE
        /\ cellNotes' = WithNotes(cell, {})
        /\ board' = b
        /\ mistakes' = IF wrong THEN mistakes + 1 ELSE mistakes
        /\ errorCells' = errorCellsAfter(cell, wrong)
        /\ score' = IF wrong THEN score ELSE score + 10
        /\ pendingGameOver' = IF over THEN pendingGameOver + 1
                              ELSE pendingGameOver
        /\ completionShown' = IF ~over /\ isPuzzleComplete(b, solution)
                              THEN TRUE ELSE completionShown
        /\ UNCHANGED <<currentDifficulty, solution, originalBoard,
                       selectedCell, notesMode, hintsUsed, rng, derived>>

\* enterNumber(cell, number) outside note mode.  With more than MistakeLimit
\* mistakes it sets the game-over timeout and returns before the completion
\* check.
enterValue(cell, number) ==
    LET row == cell[1]
        col == cell[2]
        b == [board EXCEPT ![row][col] = number]
        wrong == number # solution[row][col]
        over == wrong /\ mistakes + 1 > MistakeLimit
    IN  /\ timerStarted' = TRUE
        /\ cellNotes' = WithNotes(cell, {})
        /\ board' = b
        /\ mistakes' = IF wrong THEN mistakes + 1 ELSE mistakes
        /\ errorCells' = errorCellsAfter(cell, wrong)
        /\ score' = IF wrong THEN score ELSE score + 10
        /\ pendingGameOver' = IF over THEN pendingGameOver + 1
                              ELSE pendingGameOver
        /\ completionShown' = IF ~over /\ isPuzzleComplete(b, solution)
                              THEN TRUE ELSE completionShown
        /\ UNCHANGED <<currentDifficulty, solution, originalBoard,
                       selectedCell, notesMode, hintsUsed, rng, derived>>

\* enterNumber(cell, number)
enterNumber(cell, number) ==
    /\ cell # NoCell
    /\ IF notesMode THEN enterNote(cell, number) ELSE enterValue(cell, number)

\* eraseCell(cell): the cell is cleared unless it holds the solution's value.
eraseCell(cell) ==
    /\ cell # NoCell
    /\ LET row == cell[1]
           col == cell[2]
       IN  board' = IF solution[row][col] # board[row][col]
                    THEN [board EXCEPT ![row][col] = 0]
                    ELSE board
    /\ UNCHANGED <<currentDifficulty, solution, originalBoard, selectedCell,
                   mistakes, score, timerStarted, errorCells, notesMode,
                   cellNotes, hintsUsed, rng, pendingGameOver,
                   completionShown, derived>>

resetProgressStoringBoard ==
    /\ originalBoard' = CopyBoard(board)
    /\ mistakes' = 0
    /\ score' = 0
    /\ errorCells' = {}
    /\ cellNotes' = NoNotes
    /\ UNCHANGED <<currentDifficulty, solution, board, selectedCell,
                   timerStarted, notesMode, hintsUsed, rng, pendingGameOver,
                   completionShown, derived>>

resetProgressFromSolution ==
    /\ board' = CopyBoard(solution)
    /\ mistakes' = 0
    /\ score' = 0
    /\ errorCells' = {}
    /\ cellNotes' = NoNotes
    /\ UNCHANGED <<currentDifficulty, solution, originalBoard, selectedCell,
                   timerStarted, notesMode, hintsUsed, rng, pendingGameOver,
                   completionShown, derived>>

\* resetProgress(): the board is restored from the snapshot, and the
\* mistakes, the score, the error marks and the notes are cleared.
resetProgress ==
    /\ board' = CopyBoard(originalBoard)
    /\ mistakes' = 0
    /\ score' = 0
    /\ errorCells' = {}
    /\ cellNotes' = NoNotes
    /\ UNCHANGED <<currentDifficulty, solution, originalBoard, selectedCell,
                   timerStarted, notesMode, hintsUsed, rng, pendingGameOver,
                   completionShown, derived>>

\* toggleNoteMode(): entering note mode clears the selection.
toggleNoteMode ==
    /\ notesMode' = ~notesMode
    /\ selectedCell' = IF ~notesMode THEN NoCell ELSE selectedCell
    /\ UNCHANGED <<currentDifficulty, board, solution, originalBoard,
                   mistakes, score, timerStarted, errorCells, cellNotes,
                   hintsUsed, rng, pendingGameOver, completionShown, derived>>

\* The cells giveHint collects: those holding 0.
emptyCells == {p \in Cells : board[p[1]][p[2]] = 0}

giveHintNoLimit ==
    /\ IF emptyCells = {}
       THEN UNCHANGED <<board, hintsUsed, score>>
       ELSE \E p \in emptyCells :
              /\ board' = [board EXCEPT ![p[1]][p[2]] = solution[p[1]][p[2]]]
              /\ hintsUsed' = hintsUsed + 1
              /\ score' = score + 5
    /\ UNCHANGED <<currentDifficulty, solution, originalBoard, selectedCell,
                   mistakes, timerStarted, errorCells, notesMode, cellNotes,
                   rng, pendingGameOver, completionShown, derived>>

\* giveHint(): with no hint left, or no empty cell, it only alerts;
\* otherwise any of the empty cells is drawn and filled from the solution.
giveHint ==
    /\ IF hintsUsed >= maxHints \/ emptyCells = {}
       THEN UNCHANGED <<board, hintsUsed, score>>
       ELSE \E p \in emptyCells :
              /\ board' = [board EXCEPT ![p[1]][p[2]] = solution[p[1]][p[2]]]
              /\ hintsUsed' = hintsUsed + 1
              /\ score' = score + 5
    /\ UNCHANGED <<currentDifficulty, solution, originalBoard, selectedCell,
                   mistakes, timerStarted, errorCells, notesMode, cellNotes,
                   rng, pendingGameOver, completionShown, derived>>

\* -------------------------------------------------------- the session's events
\* The handlers are registered by initializeGame, which sets the difficulty.
Initialized == currentDifficulty # Null

\* An input event is handled, while the session is followed.
InputEvent ==
    /\ Initialized
    /\ ops < MaxOps
    /\ ops' = ops + 1

\* DOMContentLoaded, then the two timeouts: initializeGame() registers the
\* handlers and ends with setDifficulty('easy').
InitializeGame ==
    /\ ~Initialized
    /\ setDifficulty("easy")
    /\ UNCHANGED <<ops, machines>>

\* A difficulty button.
SetDifficulty(d) ==
    /\ InputEvent
    /\ setDifficulty(d)
    /\ UNCHANGED machines

\* The new-game button: startNewGame(gameState.currentDifficulty || 'easy').
NewGame ==
    /\ InputEvent
    /\ startNewGame(currentDifficulty)
    /\ UNCHANGED <<currentDifficulty, pendingGameOver, completionShown, machines>>

\* The callback of a game-over timeout: startNewGame(currentDifficulty).
GameOverTimeout ==
    /\ pendingGameOver > 0
    /\ pendingGameOver' = pendingGameOver - 1
    /\ startNewGame(currentDifficulty)
    /\ UNCHANGED <<currentDifficulty, completionShown, ops, machines>>

\* A click on the cell (row, col).
SelectCell(row, col) ==
    /\ InputEvent
    /\ selectCell(row, col)
    /\ UNCHANGED machines

\* A number button, a digit key or the keypad, with a cell selected.
EnterNumber(number) ==
    /\ InputEvent
    /\ enterNumber(selectedCell, number)
    /\ UNCHANGED machines

\* The erase button, Backspace or Delete, with a cell selected.
EraseCell ==
    /\ InputEvent
    /\ eraseCell(selectedCell)
    /\ UNCHANGED machines

\* The retry button.
ResetProgress ==
    /\ InputEvent
    /\ resetProgress
    /\ UNCHANGED machines

\* The note button.
ToggleNoteMode ==
    /\ InputEvent
    /\ toggleNoteMode
    /\ UNCHANGED machines

\* The hint button.
GiveHint ==
    /\ InputEvent
    /\ giveHint
    /\ UNCHANGED machines

\* The OK button of the completion modal hides it.
CompletionOk ==
    /\ Initialized
    /\ completionShown
    /\ completionShown' = FALSE
    /\ UNCHANGED <<gameFields, rng, pendingGameOver, derived, ops, machines>>

\* The page is loaded: the gameState literal, and a seed for the stream.
Init ==
    /\ InitSession
    /\ rng \in 0 .. NumSeeds - 1
    /\ IdleGen
    /\ IdlePuzzle

\* The handlers that run generatePuzzle.
Generates ==
    \/ InitializeGame
    \/ \E d \in DifficultyNames : SetDifficulty(d)
    \/ NewGame
    \/ GameOverTimeout

\* The player's operations on the game in progress.
PlayerStep ==
    \/ \E row \in Idx, col \in Idx : SelectCell(row, col)
    \/ \E number \in Digits : EnterNumber(number)
    \/ EraseCell
    \/ ResetProgress
    \/ ToggleNoteMode
    \/ GiveHint

Next == Generates \/ PlayerStep

Spec == Init /\ [][Next]_vars

\* ------------------------------------------- filling a puzzle, cell by cell
\* The player of this specification clicks on empty cells only, enters a
\* number into the selected cell while it is empty (the solution's value,
\* or up to MaxFillMistakes times another one) and dismisses the completion
\* modal; the events are not counted.
FillSelect(row, col) ==
    /\ Initialized
    /\ board[row][col] = 0
    /\ selectCell(row, col)
    /\ UNCHANGED <<ops, machines>>

FillEnter ==
    /\ Initialized
    /\ selectedCell # NoCell
    /\ board[selectedCell[1]][selectedCell[2]] = 0
    /\ enterNumber(selectedCell, solution[selectedCell[1]][selectedCell[2]])
    /\ UNCHANGED <<ops, machines>>

FillMistake(number) ==
    /\ Initialized
    /\ selectedCell # NoCell
    /\ board[selectedCell[1]][selectedCell[2]] = 0
    /\ number # solution[selectedCell[1]][selectedCell[2]]
    /\ mistakes < MaxFillMistakes
    /\ enterNumber(selectedCell, number)
    /\ UNCHANGED <<ops, machines>>

NextFill ==
    \/ InitializeGame
    \/ \E row \in Idx, col \in Idx : FillSelect(row, col)
    \/ FillEnter
    \/ \E number \in Digits : FillMistake(number)
    \/ CompletionOk

SpecFill == Init /\ [][NextFill]_vars

\* ------------------------------------------ filling a puzzle, with hints
\* A player who makes no wrong entry, and presses the hint button and the
\* retry button at any time.
HintRequest ==
    /\ Initialized
    /\ giveHint
    /\ UNCHANGED <<ops, machines>>

Retry ==
    /\ Initialized
    /\ resetProgress
    /\ UNCHANGED <<ops, machines>>

NextHint ==
    \/ InitializeGame
    \/ \E row \in Idx, col \in Idx : FillSelect(row, col)
    \/ FillEnter
    \/ CompletionOk
    \/ HintRequest
    \/ Retry

SpecHint == Init /\ [][NextHint]_vars

\* ------------------------------------------------- a player who only errs
\* The player clicks on an empty cell when none is selected, and enters
\* wrong numbers into the selected cell, up to MaxMistakes of them; the
\* game-over timeouts run when the browser gets to them, before or after
\* further input.
OverSelect(row, col) ==
    /\ selectedCell = NoCell
    /\ FillSelect(row, col)

WrongEntry(number) ==
    /\ Initialized
    /\ selectedCell # NoCell
    /\ number # solution[selectedCell[1]][selectedCell[2]]
    /\ mistakes < MaxMistakes
    /\ enterNumber(selectedCell, number)
    /\ UNCHANGED <<ops, machines>>

NextOver ==
    \/ InitializeGame
    \/ \E row \in Idx, col \in Idx : OverSelect(row, col)
    \/ \E number \in Digits : WrongEntry(number)
    \/ GameOverTimeout

SpecOver == Init /\ [][NextOver]_vars

\* ================================================================ claims
\* The values of a row, of a column and of a box of b.
RowValues(b, row) == {b[row][c] : c \in Idx}
ColumnValues(b, col) == {b[r][col] : r \in Idx}
BoxValues(b, boxRow, boxCol) ==
    {b[boxRow * BoxSize + i][boxCol * BoxSize + j] :
       i \in 0 .. BoxSize - 1, j \in 0 .. BoxSize - 1}

\* N cells whose values are 1 .. N hold each of them exactly once.
ValidSudoku(b) ==
    /\ \A row \in Idx : RowValues(b, row) = Digits
    /\ \A col \in Idx : ColumnValues(b, col) = Digits
    /\ \A boxRow \in 0 .. BoxSize - 1, boxCol \in 0 .. BoxSize - 1 :
         BoxValues(b, boxRow, boxCol) = Digits

\* C1: every grid generateValidSudoku returns, whatever the shuffles gave,
\* is fully populated with 1 .. N and has every digit exactly once in each
\* row, each column and each box.
C1_GeneratedGridValid == gpc = "done" => ValidSudoku(genBoard)

\* A grid is returned that the shuffles, not the order 1 .. N, decided.
C1_Witness ==
    /\ gpc = "done"
    /\ genBoard[0][0] = N
    /\ genBoard[1][0] = 1

\* C2: started on the all-zero grid, solve() terminates for every choice of
\* candidate orderings, and its top-level call returns true, never false.
C2_SolveTerminatesTrue ==
    /\ <>(gpc = "done")
    /\ [](gpc = "done" => ret = "true")

\* The top-level call has returned true.
C2_Witness == gpc = "done" /\ ret = "true" /\ stack = <<>>

\* The cell p lies in the row, the column or the box of (row, col).
SameGroup(p, row, col) ==
    \/ p[1] = row
    \/ p[2] = col
    \/ /\ p[1] \div BoxSize = row \div BoxSize
       /\ p[2] \div BoxSize = col \div BoxSize

\* num is held by a cell of the groups of (row, col) other than (row, col).
OccursElsewhere(b, row, col, num) ==
    \E p \in Cells :
      p # <<row, col>> /\ SameGroup(p, row, col) /\ b[p[1]][p[2]] = num

\* num is held by a cell of the groups of (row, col), (row, col) included.
OccursInGroups(b, row, col, num) ==
    \E p \in Cells : SameGroup(p, row, col) /\ b[p[1]][p[2]] = num

\* C3, as claimed: for every grid, cell and value, isValid is false exactly
\* when the value is held at a position of the row, column or box other
\* than the target cell.
C3_Original ==
    \A row \in Idx, col \in Idx, num \in Digits :
      isValid(genBoard, row, col, num) <=> ~OccursElsewhere(genBoard, row, col, num)

\* C3, amended: isValid is false exactly when the value is held anywhere in
\* the row, column or box, the target cell included; on an empty target
\* cell, as at every call made by solve, that is the claimed condition.
C3_IsValidIffAbsent ==
    \A row \in Idx, col \in Idx, num \in Digits :
      /\ isValid(genBoard, row, col, num) <=> ~OccursInGroups(genBoard, row, col, num)
      /\ genBoard[row][col] = 0 =>
           (isValid(genBoard, row, col, num)
              <=> ~OccursElsewhere(genBoard, row, col, num))

\* The loop of a call is at a number that only the box of its cell holds.
C3_Witness ==
    /\ gpc = "loop"
    /\ \E num \in Top.rest :
         /\ ~isValid(genBoard, Top.row, Top.col, num)
         /\ num \notin RowValues(genBoard, Top.row)
         /\ num \notin ColumnValues(genBoard, Top.col)

\* C4: for every clue count C in 0 .. CellCount, when the removal loop
\* finishes the puzzle has exactly C non-zero cells and CellCount - C zero
\* cells, each removed cell counted once.
C4_ExactClueCount ==
    (ppc = "done" /\ clueCount \in 0 .. CellCount) =>
      /\ NonZeroCount(board) = clueCount
      /\ Cardinality({p \in Cells : board[p[1]][p[2]] = 0}) = CellCount - clueCount
      /\ removed = CellCount - clueCount

\* The loop has finished for a clue count strictly between the ends.
C4_Witness ==
    /\ ppc = "done"
    /\ clueCount \in 1 .. CellCount - 1
    /\ board[0][0] = 0
    /\ board[N - 1][N - 1] # 0

\* Every cell of b is 0 or the cell of sol.
SubsetOf(b, sol) ==
    \A row \in Idx, col \in Idx : b[row][col] = 0 \/ b[row][col] = sol[row][col]

\* C5: when generatePuzzle returns, every cell of the board and of its
\* snapshot is 0 or the solution's value at that position.
C5_PuzzleSubsetOfSolution ==
    ppc = "done" => SubsetOf(board, solution) /\ SubsetOf(originalBoard, solution)

\* generatePuzzle has returned a puzzle with clues and with holes.
C5_Witness ==
    /\ ppc = "done"
    /\ originalBoard = board
    /\ \E p \in Cells : board[p[1]][p[2]] = 0
    /\ \E p \in Cells : board[p[1]][p[2]] = solution[p[1]][p[2]]

\* C6, as claimed: in every state of a session every non-zero cell of the
\* board equals the solution's value at that position.
C6_Original == Initialized => SubsetOf(board, solution)

\* C6, amended: every non-zero cell of the board equals the solution's
\* value unless it is a wrong entry recorded in errorCells, and the
\* original puzzle is always a positional subset of the solution.
C6_BoardSubsetButErrors ==
    Initialized =>
      /\ \A p \in Cells :
           \/ board[p[1]][p[2]] = 0
           \/ board[p[1]][p[2]] = solution[p[1]][p[2]]
           \/ p \in errorCells
      /\ SubsetOf(originalBoard, solution)

\* A wrong entry stands on the board beside a right one.
C6_Witness ==
    /\ Initialized
    /\ \E p \in errorCells :
         board[p[1]][p[2]] \notin {0, solution[p[1]][p[2]]}
    /\ \E p \in Cells :
         originalBoard[p[1]][p[2]] = 0 /\ board[p[1]][p[2]] = solution[p[1]][p[2]]

\* C7: no player operation changes the solution or the original puzzle;
\* a step that changes either is a handler that runs generatePuzzle, and
\* that handler leaves the original puzzle as the removal loop left it.
C7_SolutionAndSnapshotFrame ==
    [][/\ PlayerStep => UNCHANGED <<solution, originalBoard>>
       /\ (solution' # solution \/ originalBoard' # originalBoard) =>
            (Generates /\ originalBoard' = derived')]_vars

\* The player has changed the board of a game, and used a hint.
C7_Witness ==
    /\ Initialized
    /\ board # originalBoard
    /\ errorCells # {}
    /\ hintsUsed > 0

\* The state resetProgress leaves.
ResetState ==
    /\ board = originalBoard
    /\ mistakes = 0
    /\ score = 0
    /\ errorCells = {}
    /\ cellNotes = NoNotes

\* C8: after any player moves resetProgress makes the board equal, cell for
\* cell, to the grid captured right after derivation, and a second
\* resetProgress changes nothing further.
C8_ResetRestoresDerived ==
    [][ResetProgress =>
         /\ board' = derived
         /\ ResetState'
         /\ ResetState => UNCHANGED gameFields]_vars

\* A reset has followed a hint: the hint is still counted, its score is not.
C8_Witness ==
    /\ Initialized
    /\ hintsUsed > 0
    /\ score = 0
    /\ board = derived

\* C9: isPuzzleComplete is true exactly when every cell of the board equals
\* the solution's; as the empty cells are filled with their solution values
\* one at a time, the completion check of an entry succeeds at the last one
\* and at no other.
C9_CompleteIffEqual ==
    /\ [](Initialized => (isPuzzleComplete(board, solution) <=> board = solution))
    /\ [][FillEnter =>
           /\ completionShown' <=> board' = solution
           /\ mistakes = 0 => (completionShown' <=> emptyCells' = {})]_vars

\* The last empty cell has been filled, and the completion shown.
C9_Witness ==
    /\ Initialized
    /\ board = solution
    /\ board # originalBoard
    /\ completionShown

\* C10, as claimed: a clue count outside 0 .. CellCount is rejected before
\* the removal loop: no cell is removed and no puzzle is produced.
C10_Original ==
    clueCount \notin 0 .. CellCount => removed = 0 /\ ppc # "done"

\* C11: a number entry outside note mode counts a mistake exactly when the
\* entered value differs from the solution's at the selected cell: the
\* mistake counter goes up by exactly 1 then and is unchanged otherwise; the
\* entry counted correct scores, and the cell's error mark follows the
\* classification.
C11_MistakeIffDiffers ==
    [][\A number \in Digits :
         (EnterNumber(number) /\ ~notesMode) =>
           LET wrong == number # solution[selectedCell[1]][selectedCell[2]]
           IN  /\ mistakes' = mistakes + 1 <=> wrong
               /\ mistakes' = mistakes <=> ~wrong
               /\ score' = (IF wrong THEN score ELSE score + 10)
               /\ selectedCell \in errorCells' <=> wrong]_vars

\* One entry has been counted a mistake and another has not.
C11_Witness ==
    /\ Initialized
    /\ mistakes = 1
    /\ score = 10
    /\ hintsUsed = 0
    /\ errorCells # {}

C13_FailureRestoresGrid ==
    [][(gpc = "loop" /\ gpc' = "return") =>
         /\ ret' = "false"
         /\ genBoard' = Top.entry
         /\ stack' = SubSeq(stack, 1, Len(stack) - 1)]_vars

\* The first call, on a grid with givens, has returned false after placing
\* and undoing numbers.
C13_Witness ==
    /\ gpc = "done"
    /\ ret = "false"
    /\ genBoard \in PartialGrids
    /\ genBoard[0][0] # 0

\* C14, as claimed: whenever a cell is selected, the erase operation leaves
\* that cell empty.
C14_Original ==
    [][EraseCell => board'[selectedCell[1]][selectedCell[2]] = 0]_vars

\* C18, as claimed: in every state no cell recorded in errorCells holds its
\* solution value on the board.
C18_Original ==
    Initialized =>
      \A p \in errorCells : board[p[1]][p[2]] # solution[p[1]][p[2]]

\* C16: given clues are never altered by the player: every cell that is
\* non-zero in the original puzzle holds that same value on the board in
\* every state of the game, under any selections, entries, erases, hints,
\* note edits and resets; and the selected cell is never a given clue.
C16_GivensKept ==
    Initialized =>
      /\ \A p \in Cells :
           originalBoard[p[1]][p[2]] # 0 =>
             board[p[1]][p[2]] = originalBoard[p[1]][p[2]]
      /\ selectedCell # NoCell =>
           originalBoard[selectedCell[1]][selectedCell[2]] = 0

\* The player has a wrong entry in the selected cell and has filled another
\* cell, beside the givens.
C16_Witness ==
    /\ Initialized
    /\ selectedCell # NoCell
    /\ board[selectedCell[1]][selectedCell[2]]
         \notin {0, solution[selectedCell[1]][selectedCell[2]]}
    /\ NonZeroCount(board) > NonZeroCount(originalBoard) + 1
    /\ NonZeroCount(originalBoard) > 0

C17_Original ==
    [][(Initialized /\ board # solution /\ board' = solution) =>
         completionShown']_vars

\* C19, as claimed: the mistake counter never exceeds MistakeLimit + 1 (4):
\* once a wrong entry brings it above the limit no further entry is counted
\* before the restart resets it, however input events and the deferred
\* game-over callback interleave.
C19_Original == mistakes <= MistakeLimit + 1

====
